---- MODULE Spec2Model ----
(***************************************************************************)
(* Model of mount.py, the interactive fstab auto-mount helper.             *)
(*                                                                         *)
(* A text is a sequence of one-character strings.  The table file, the     *)
(* backup file, the operator's answers and the outputs of lsblk and blkid  *)
(* are texts, and the Python string operations the script applies to them  *)
(* (strip, lower, replace, split, startswith, endswith, slicing, line      *)
(* iteration with universal newlines) are operators on texts.              *)
(***************************************************************************)
EXTENDS Integers, Sequences, FiniteSets, TLC

(***************************************************************************)
(* Bounds of the model.                                                    *)
(***************************************************************************)
\* The table file holds at most MaxLines chunks of lines when the run starts.
MaxLines == 2
\* datetime.now() answers a second in 0 .. MaxTick after the run's start.
MaxTick == 1

(***************************************************************************)
(* Python string operations.                                               *)
(***************************************************************************)
\* str.isspace() for the characters of the model's alphabet.
Whitespace == {" ", "\t", "\n", "\r"}

UpperChars == <<"A", "B", "C", "D", "E", "F", "G", "H", "I", "J", "K", "L", "M",
                "N", "O", "P", "Q", "R", "S", "T", "U", "V", "W", "X", "Y", "Z">>
LowerChars == <<"a", "b", "c", "d", "e", "f", "g", "h", "i", "j", "k", "l", "m",
                "n", "o", "p", "q", "r", "s", "t", "u", "v", "w", "x", "y", "z">>

\* str.lower() on one character.
LowerChar(c) ==
  IF \E i \in 1..Len(UpperChars) : UpperChars[i] = c
  THEN LowerChars[CHOOSE i \in 1..Len(UpperChars) : UpperChars[i] = c]
  ELSE c

\* str.lower()
Lower(s) == [i \in 1..Len(s) |-> LowerChar(s[i])]

\* str.replace(old, new) for one-character old and new.
Replace(s, old, new) == [i \in 1..Len(s) |-> IF s[i] = old THEN new ELSE s[i]]

\* s[:n]
Take(s, n) == SubSeq(s, 1, IF n < Len(s) THEN n ELSE Len(s))

\* s[n:]
Drop(s, n) == SubSeq(s, n + 1, Len(s))

\* str.startswith(p)
StartsWith(s, p) == Len(p) <= Len(s) /\ SubSeq(s, 1, Len(p)) = p

\* str.endswith(p)
EndsWith(s, p) == Len(p) <= Len(s) /\ SubSeq(s, Len(s) - Len(p) + 1, Len(s)) = p

\* str.lstrip(chars)
LStripSet(s, chars) ==
  IF \A i \in 1..Len(s) : s[i] \in chars THEN <<>>
  ELSE SubSeq(s,
              CHOOSE i \in 1..Len(s) :
                s[i] \notin chars /\ \A j \in 1..(i - 1) : s[j] \in chars,
              Len(s))

\* str.rstrip(chars)
RStripSet(s, chars) ==
  IF \A i \in 1..Len(s) : s[i] \in chars THEN <<>>
  ELSE SubSeq(s, 1,
              CHOOSE i \in 1..Len(s) :
                s[i] \notin chars /\ \A j \in (i + 1)..Len(s) : s[j] \in chars)

\* str.strip(): leading and trailing whitespace removed.
Strip(s) == RStripSet(LStripSet(s, Whitespace), Whitespace)

\* str.strip('"')
StripQuotes(s) == RStripSet(LStripSet(s, {"\""}), {"\""})

\* The indices of s, in order.
Indices(s) == [i \in 1..Len(s) |-> i]

\* str.split(): the maximal runs of non-whitespace characters.
Split(s) ==
  LET starts == SelectSeq(Indices(s), LAMBDA i :
                  s[i] \notin Whitespace /\ (i = 1 \/ s[i - 1] \in Whitespace))
      ends == SelectSeq(Indices(s), LAMBDA i :
                s[i] \notin Whitespace /\ (i = Len(s) \/ s[i + 1] \in Whitespace))
  IN [k \in 1..Len(starts) |-> SubSeq(s, starts[k], ends[k])]

\* str.split(sep, 1)[1] for a one-character sep that occurs in s.
AfterFirst(s, sep) ==
  SubSeq(s,
         (CHOOSE i \in 1..Len(s) : s[i] = sep /\ \A j \in 1..(i - 1) : s[j] # sep) + 1,
         Len(s))

\* Text-mode decoding with newline=None: "\r\n" and "\r" are read as "\n".
UniversalNewlines(b) ==
  LET kept == SelectSeq(Indices(b), LAMBDA i :
                ~(b[i] = "\n" /\ i > 1 /\ b[i - 1] = "\r"))
  IN [k \in 1..Len(kept) |-> IF b[kept[k]] = "\r" THEN "\n" ELSE b[kept[k]]]

\* The lines of a decoded text, without their terminators (iterating a file
\* object, str.splitlines()): a last line without terminator is a line, and a
\* text that ends with "\n" has no empty line after it.
Lines(s) ==
  LET nl == SelectSeq(Indices(s), LAMBDA i : s[i] = "\n")
      n == Len(nl) + (IF s # <<>> /\ s[Len(s)] # "\n" THEN 1 ELSE 0)
  IN [k \in 1..n |->
        SubSeq(s, IF k = 1 THEN 1 ELSE nl[k - 1] + 1,
                  IF k <= Len(nl) THEN nl[k] - 1 ELSE Len(s))]

\* An optional value: None, or Some(x).
None == <<>>
Some(x) == <<x>>

(***************************************************************************)
(* The script's constants.                                                 *)
(***************************************************************************)
DEFAULT_MOUNT_OPTIONS == <<"d", "e", "f", "a", "u", "l", "t", "s">>
DEFAULT_DUMP_PASS == <<"0", " ", "0">>

yes == <<"y", "e", "s">>

(***************************************************************************)
(* The environment: the table files a run may start from, the operator's   *)
(* answers, and the outputs of the external tools.                         *)
(***************************************************************************)
\* A blank line, then an entry for identifier AB at /mnt/d, commented out.
ChunkComment ==
  <<"\n", "#", "U", "U", "I", "D", "=", "A", "B", " ", "/", "m", "n", "t", "/", "d">>
\* A comment ended by a bare carriage return, then an indented, tab-separated
\* entry for identifier AB at /mnt/backup_drive.
ChunkIndented ==
  <<"#", "c", "\r", "\t", "U", "U", "I", "D", "=", "A", "B", "\t", "/", "m", "n",
    "t", "/", "b", "a", "c", "k", "u", "p", "_", "d", "r", "i", "v", "e", " ",
    "n", "t", "f", "s", " ", "r", "o", " ", "0", " ", "0">>
FstabChunks == {ChunkComment, ChunkIndented}

\* How the last line of the table file ends.
LastTerminators == {<<>>, <<"\n">>, <<"\r">>, <<"\r", "\n">>}

RECURSIVE JoinLines(_)
\* The chunks of cs, each but the last followed by "\n".
JoinLines(cs) ==
  IF Len(cs) = 0 THEN <<>>
  ELSE IF Len(cs) = 1 THEN cs[1]
  ELSE cs[1] \o <<"\n">> \o JoinLines(Tail(cs))

\* The table files: none, or up to MaxLines chunks and a last terminator.
FstabFiles ==
  {<<>>} \cup
  UNION {{JoinLines(cs) \o t : cs \in [1..n -> FstabChunks], t \in LastTerminators} :
         n \in 1..MaxLines}

UuidInputs ==
  {<<>>, <<" ">>, <<"A", "B">>, <<"A", "B", "C", "D", "-", "1", "2", "3", "4">>}
MountInputs == {<<>>, <<"/", "m", "n", "t", "/", "d">>}
FsInputs == {<<>>, <<"e", "x", "t", "4">>}
OptionsInputs == {<<>>, <<"r", "o">>}
DumpPassInputs == {<<>>, <<"0", " ", "2">>}
Answers == {yes, <<"Y", "E", "S">>, <<" ", "y", "e", "s">>, <<"n", "o">>}

\* What running blkid -U <uuid> -o export may give: the tool is missing, or
\* it returns a code and a standard output.
BlkidResults ==
  {[found |-> FALSE, returncode |-> 0, stdout |-> <<>>],
   [found |-> TRUE, returncode |-> 2, stdout |-> <<>>],
   [found |-> TRUE, returncode |-> 0, stdout |->
      <<"T", "Y", "P", "E", "=", "n", "t", "f", "s", "\n", "L", "A", "B", "E",
        "L", "=", "B", "a", "c", "k", "u", "p", " ", "D", "r", "i", "v", "e", "\n">>],
   [found |-> TRUE, returncode |-> 0, stdout |->
      <<"L", "A", "B", "E", "L", "=", "\"", "B", "a", "c", "k", "u", "p", " ",
        "D", "r", "i", "v", "e", "\"", "\n">>],
   [found |-> TRUE, returncode |-> 0, stdout |->
      <<"T", "Y", "P", "E", "=", "n", "t", "f", "s", "\n">>],
   [found |-> TRUE, returncode |-> 0, stdout |-> <<"L", "A", "B", "E", "L", "=", "\n">>]}

\* What running lsblk -no FSTYPE UUID=<uuid> may give.
LsblkFsResults ==
  {[found |-> FALSE, returncode |-> 0, stdout |-> <<>>],
   [found |-> TRUE, returncode |-> 32, stdout |-> <<>>],
   [found |-> TRUE, returncode |-> 0, stdout |-> <<"\n">>],
   [found |-> TRUE, returncode |-> 0, stdout |-> <<"n", "t", "f", "s", "\n">>]}

(***************************************************************************)
(* The state of a run.                                                     *)
(***************************************************************************)
VARIABLES
  pc,               \* the statement main() is at
  exitStatus,       \* the process's exit status, once pc = "exited"
  interrupted,      \* main() caught KeyboardInterrupt
  asked,            \* the prompts issued so far, in order
  fstabExists,      \* /etc/fstab exists
  fstab,            \* the content of /etc/fstab
  fstab0,           \* the content of /etc/fstab when the run started
  backup,           \* the backup file: None, or Some(content)
  backupOk,         \* shutil.copy2 returned
  tableOpened,      \* open(FSTAB_FILE, "r+") returned
  lsblk_result,     \* how lsblk ended in list_drives, while it is active
  blkidAttempted,   \* list_drives has run "sudo blkid", while it is active
  guidancePrinted,  \* list_drives printed its closing guidance
  uuid_entered,     \* the answer to the identifier prompt as typed, once given
  drive_uuid,
  scanFrom,         \* the first line the running scan has yet to read
  warnedLines,      \* the line numbers the identifier scan warned about
  confirm_continue, \* the lowered answers to the confirmations, once given
  confirm_continue_mp,
  create_dir_choice,
  confirm_non_empty,
  confirm_add,
  label,
  mount_input,      \* the stripped answer to the mount point prompt
  mount_point,
  detected_fstype,
  fs_input,         \* the stripped answer to the filesystem type prompt
  fs_type,
  options_input,    \* the stripped answer to the mount options prompt
  mount_options,
  dump_pass_input,
  dump_pass,
  dir,              \* what the script found at the mount point
  dirCreated        \* os.makedirs created the mount point

vars ==
  <<pc, exitStatus, interrupted, asked, fstabExists, fstab, fstab0, backup,
    backupOk, tableOpened, lsblk_result, blkidAttempted, guidancePrinted, uuid_entered,
    drive_uuid,
    scanFrom, warnedLines, confirm_continue, confirm_continue_mp,
    create_dir_choice, confirm_non_empty, confirm_add, label, mount_input,
    mount_point, detected_fstype, fs_input, fs_type, options_input,
    mount_options, dump_pass_input, dump_pass, dir, dirCreated>>

files == <<fstabExists, fstab, fstab0, backup, backupOk, tableOpened, dirCreated>>
listing == <<lsblk_result, blkidAttempted, guidancePrinted>>
params ==
  <<uuid_entered, drive_uuid, label, mount_input, mount_point, detected_fstype,
    fs_input, fs_type, options_input, mount_options, dump_pass_input, dump_pass>>
answers ==
  <<confirm_continue, confirm_continue_mp, create_dir_choice, confirm_non_empty,
    confirm_add>>
scan == <<scanFrom, warnedLines>>

Init ==
  /\ pc = "check_root"
  /\ exitStatus = 0
  /\ interrupted = FALSE
  /\ asked = <<>>
  /\ \/ fstabExists = TRUE /\ fstab \in FstabFiles
     \/ fstabExists = FALSE /\ fstab = <<>>
  /\ fstab0 = fstab
  /\ backup = None
  /\ backupOk = FALSE
  /\ tableOpened = FALSE
  /\ lsblk_result = "unbound"
  /\ blkidAttempted = FALSE
  /\ guidancePrinted = FALSE
  /\ uuid_entered = None
  /\ drive_uuid = <<>>
  /\ scanFrom = 1
  /\ warnedLines = <<>>
  /\ confirm_continue = None
  /\ confirm_continue_mp = None
  /\ create_dir_choice = None
  /\ confirm_non_empty = None
  /\ confirm_add = None
  /\ label = None
  /\ mount_input = <<>>
  /\ mount_point = <<>>
  /\ detected_fstype = None
  /\ fs_input = <<>>
  /\ fs_type = <<>>
  /\ options_input = <<>>
  /\ mount_options = <<>>
  /\ dump_pass_input = <<>>
  /\ dump_pass = <<>>
  /\ dir = "unknown"
  /\ dirCreated = FALSE

\* sys.exit(code)
Exit(code) == pc' = "exited" /\ exitStatus' = code

(***************************************************************************)
(* check_root and list_drives.                                             *)
(***************************************************************************)
\* check_root(): anyone but root is turned away.
check_root ==
  /\ pc = "check_root"
  /\ \E euid \in {0, 1000} :
       IF euid # 0 THEN Exit(1) ELSE pc' = "list_drives" /\ exitStatus' = exitStatus
  /\ UNCHANGED <<interrupted, asked, files, listing, params, answers, scan, dir>>

\* Mutant: the fallback is also run when lsblk is not installed.
RunsBlkidFallback_AlsoWhenMissing(outcome) == outcome \in {"nonzero", "missing"}

\* Whether list_drives runs "sudo blkid" after lsblk ended as given.
RunsBlkidFallback(outcome) == outcome = "nonzero"

\* list_drives() to its closing guidance: lsblk succeeds, returns a non-zero
\* code, is not installed, or fails some other way.
list_drives ==
  /\ pc = "list_drives"
  /\ \E outcome \in {"ok", "nonzero", "missing", "error"} :
       /\ lsblk_result' = outcome
       /\ blkidAttempted' = RunsBlkidFallback(outcome)
  /\ pc' = "print_guidance"
  /\ UNCHANGED <<exitStatus, interrupted, asked, files, guidancePrinted, params,
                 answers, scan, dir>>

\* The closing guidance of list_drives, and its return to main().
PrintGuidance ==
  /\ pc = "print_guidance"
  /\ guidancePrinted' = TRUE
  /\ lsblk_result' = "unbound"
  /\ blkidAttempted' = FALSE
  /\ pc' = "prompt_uuid"
  /\ UNCHANGED <<exitStatus, interrupted, asked, files, params, answers, scan, dir>>

(***************************************************************************)
(* The helpers of get_user_input.                                          *)
(***************************************************************************)
\* The lines of /etc/fstab as open(FSTAB_FILE, "r") iterates them.
FstabLines == Lines(UniversalNewlines(fstab))

\* f"UUID={drive_uuid}"
UuidField(uuid) == <<"U", "U", "I", "D", "=">> \o uuid

\* A line the scans do not skip: not blank, not a comment, once stripped.
IsActiveLine(line) == Strip(line) # <<>> /\ ~StartsWith(Strip(line), <<"#">>)

\* The identifier scan's test of one line.
UuidLineMatches(line, uuid) ==
  /\ IsActiveLine(line)
  /\ Len(Split(Strip(line))) > 0
  /\ Split(Strip(line))[1] = UuidField(uuid)

\* The mount point scan's test of one line.
MountLineMatches(line, mp) ==
  /\ IsActiveLine(line)
  /\ Len(Split(Strip(line))) > 1
  /\ Split(Strip(line))[2] = mp

\* The number of the first line from line number from on that the identifier
\* scan stops at, 0 when it reads to the end of the file.
FirstUuidMatch(lines, from, uuid) ==
  IF \E i \in from..Len(lines) : UuidLineMatches(lines[i], uuid)
  THEN CHOOSE i \in from..Len(lines) :
         /\ UuidLineMatches(lines[i], uuid)
         /\ \A j \in from..(i - 1) : ~UuidLineMatches(lines[j], uuid)
  ELSE 0

\* The same for the mount point scan.
FirstMountMatch(lines, from, mp) ==
  IF \E i \in from..Len(lines) : MountLineMatches(lines[i], mp)
  THEN CHOOSE i \in from..Len(lines) :
         /\ MountLineMatches(lines[i], mp)
         /\ \A j \in from..(i - 1) : ~MountLineMatches(lines[j], mp)
  ELSE 0

\* Mutant: no break, the scan reads on after a confirmed warning.
AfterConfirmedWarning_NoBreak(scanPc, nextPc) == scanPc

\* Where a scan goes on after a confirmed warning: the break leaves the loop.
AfterConfirmedWarning(scanPc, nextPc) == nextPc

\* Mutant: the answer is stripped before it is compared.
IsYes_Stripped(answer) == Strip(answer) = yes

\* A lowered answer confirms when it is "yes" and nothing else.
IsYes(answer) == answer = yes

\* get_label_for_uuid(uuid) when blkid gives r.
get_label_for_uuid(uuid, r) ==
  LET labelLines ==
        SelectSeq(Lines(UniversalNewlines(r.stdout)),
                  LAMBDA l : StartsWith(l, <<"L", "A", "B", "E", "L", "=">>))
  IN IF uuid = <<>> THEN None
     ELSE IF ~r.found THEN None
     ELSE IF r.returncode = 0 /\ labelLines # <<>>
          THEN Some(StripQuotes(AfterFirst(labelLines[1], "=")))
          ELSE None

\* get_fs_type_for_uuid(uuid) when lsblk gives r.
get_fs_type_for_uuid(uuid, r) ==
  IF uuid = <<>> THEN None
  ELSE IF ~r.found THEN None
  ELSE IF r.returncode = 0 /\ Strip(UniversalNewlines(r.stdout)) # <<>>
       THEN Some(Strip(UniversalNewlines(r.stdout)))
       ELSE None

\* Mutant: the label is not lowered.
default_mount_name_NoLower(lbl, uuid) ==
  IF lbl # None /\ lbl[1] # <<>>
  THEN Replace(lbl[1], " ", "_")
  ELSE <<"d", "r", "i", "v", "e", "-">> \o Take(uuid, 8)

\* default_mount_name: from the label when there is a non-empty one, else
\* from the first 8 characters of the identifier.
default_mount_name(lbl, uuid) ==
  IF lbl # None /\ lbl[1] # <<>>
  THEN Lower(Replace(lbl[1], " ", "_"))
  ELSE <<"d", "r", "i", "v", "e", "-">> \o Take(uuid, 8)

suggested_mount_point(lbl, uuid) ==
  <<"/", "m", "n", "t", "/">> \o default_mount_name(lbl, uuid)

\* x or y, for texts.
Or(x, y) == IF x # <<>> THEN x ELSE y

(***************************************************************************)
(* get_user_input.                                                         *)
(***************************************************************************)
\* Mutant: the answer is not stripped.
Identifier_NoStrip(raw) == raw

\* drive_uuid, from the answer to the identifier prompt.
Identifier(raw) == Strip(raw)

\* The identifier prompt; an empty identifier ends the run.
PromptUuid ==
  /\ pc = "prompt_uuid"
  /\ \E raw \in UuidInputs :
       /\ uuid_entered' = Some(raw)
       /\ drive_uuid' = Identifier(raw)
       /\ IF Identifier(raw) = <<>> THEN Exit(1)
          ELSE pc' = "scan_uuid" /\ exitStatus' = exitStatus
  /\ asked' = Append(asked, pc)
  /\ scanFrom' = 1
  /\ UNCHANGED <<files, listing, interrupted, warnedLines, confirm_continue,
                 confirm_continue_mp, create_dir_choice, confirm_non_empty,
                 confirm_add, label, mount_input, mount_point,
                 detected_fstype, fs_input, fs_type, options_input,
                 mount_options, dump_pass_input, dump_pass, dir>>

\* The identifier scan, to its first warning or to the end of the file.  A
\* missing or unreadable table file ends the run.
ScanUuid ==
  /\ pc = "scan_uuid"
  /\ \/ /\ ~fstabExists
        /\ Exit(1)
        /\ UNCHANGED scan
     \/ /\ fstabExists
        /\ Exit(1)
        /\ UNCHANGED scan
     \/ /\ fstabExists
        /\ LET m == FirstUuidMatch(FstabLines, scanFrom, drive_uuid)
           IN IF m = 0
              THEN pc' = "get_label" /\ UNCHANGED scan
              ELSE /\ pc' = "confirm_uuid"
                   /\ warnedLines' = Append(warnedLines, m)
                   /\ scanFrom' = m + 1
        /\ exitStatus' = exitStatus
  /\ UNCHANGED <<interrupted, asked, files, listing, params, answers, dir>>

\* The answer to the duplicate identifier warning.
ConfirmUuid ==
  /\ pc = "confirm_uuid"
  /\ \E raw \in Answers :
       /\ confirm_continue' = Some(Lower(raw))
       /\ IF ~IsYes(Lower(raw)) THEN Exit(1)
          ELSE /\ pc' = AfterConfirmedWarning("scan_uuid", "get_label")
               /\ exitStatus' = exitStatus
  /\ asked' = Append(asked, pc)
  /\ UNCHANGED <<interrupted, files, listing, params, scan, dir,
                 confirm_continue_mp, create_dir_choice, confirm_non_empty,
                 confirm_add>>

\* label = get_label_for_uuid(drive_uuid)
GetLabel ==
  /\ pc = "get_label"
  /\ \E r \in BlkidResults : label' = get_label_for_uuid(drive_uuid, r)
  /\ pc' = "prompt_mount"
  /\ UNCHANGED <<files, listing, exitStatus, interrupted, asked,
                 uuid_entered, drive_uuid, scanFrom, warnedLines,
                 confirm_continue, confirm_continue_mp, create_dir_choice,
                 confirm_non_empty, confirm_add, mount_input, mount_point,
                 detected_fstype, fs_input, fs_type, options_input,
                 mount_options, dump_pass_input, dump_pass, dir>>

\* The mount point prompt: a blank answer takes the suggestion.
PromptMount ==
  /\ pc = "prompt_mount"
  /\ \E raw \in MountInputs :
       /\ mount_input' = Strip(raw)
       /\ mount_point' = Or(Strip(raw), suggested_mount_point(label, drive_uuid))
  /\ IF mount_point' = <<>> THEN Exit(1)
     ELSE pc' = "scan_mount" /\ exitStatus' = exitStatus
  /\ asked' = Append(asked, pc)
  /\ scanFrom' = 1
  /\ UNCHANGED <<files, listing, interrupted, uuid_entered, drive_uuid,
                 warnedLines, confirm_continue, confirm_continue_mp,
                 create_dir_choice, confirm_non_empty, confirm_add, label,
                 detected_fstype, fs_input, fs_type, options_input,
                 mount_options, dump_pass_input, dump_pass, dir>>

\* The mount point scan.  An unreadable table file ends the run; a missing
\* one, which this scan would pass over, has ended it in the identifier scan.
ScanMount ==
  /\ pc = "scan_mount"
  /\ \/ /\ Exit(1)
        /\ UNCHANGED scan
     \/ /\ LET m == FirstMountMatch(FstabLines, scanFrom, mount_point)
           IN IF m = 0
              THEN pc' = "detect_fs" /\ UNCHANGED scan
              ELSE /\ pc' = "confirm_mount"
                   /\ scanFrom' = m + 1
                   /\ UNCHANGED warnedLines
        /\ exitStatus' = exitStatus
  /\ UNCHANGED <<interrupted, asked, files, listing, params, answers, dir>>

\* The answer to the duplicate mount point warning.
ConfirmMount ==
  /\ pc = "confirm_mount"
  /\ \E raw \in Answers :
       /\ confirm_continue_mp' = Some(Lower(raw))
       /\ IF ~IsYes(Lower(raw)) THEN Exit(1)
          ELSE /\ pc' = AfterConfirmedWarning("scan_mount", "detect_fs")
               /\ exitStatus' = exitStatus
  /\ asked' = Append(asked, pc)
  /\ UNCHANGED <<interrupted, files, listing, params, scan, dir,
                 confirm_continue, create_dir_choice, confirm_non_empty,
                 confirm_add>>

\* detected_fstype = get_fs_type_for_uuid(drive_uuid)
DetectFs ==
  /\ pc = "detect_fs"
  /\ \E r \in LsblkFsResults : detected_fstype' = get_fs_type_for_uuid(drive_uuid, r)
  /\ pc' = "prompt_fs"
  /\ UNCHANGED <<files, listing, exitStatus, interrupted, asked,
                 uuid_entered, drive_uuid, scanFrom, warnedLines,
                 confirm_continue, confirm_continue_mp, create_dir_choice,
                 confirm_non_empty, confirm_add, label, mount_input,
                 mount_point, fs_input, fs_type, options_input,
                 mount_options, dump_pass_input, dump_pass, dir>>

\* The filesystem type prompt: a blank answer takes the detected type, and
\* an empty type ends the run.
PromptFs ==
  /\ pc = "prompt_fs"
  /\ \E raw \in FsInputs :
       /\ fs_input' = Strip(raw)
       /\ fs_type' = IF detected_fstype # None
                     THEN Or(Strip(raw), detected_fstype[1])
                     ELSE Strip(raw)
  /\ IF fs_type' = <<>> THEN Exit(1)
     ELSE pc' = "prompt_options" /\ exitStatus' = exitStatus
  /\ asked' = Append(asked, pc)
  /\ UNCHANGED <<files, listing, interrupted, uuid_entered, drive_uuid,
                 scanFrom, warnedLines, confirm_continue,
                 confirm_continue_mp, create_dir_choice, confirm_non_empty,
                 confirm_add, label, mount_input, mount_point,
                 detected_fstype, options_input, mount_options,
                 dump_pass_input, dump_pass, dir>>

\* The mount options prompt.
PromptOptions ==
  /\ pc = "prompt_options"
  /\ \E raw \in OptionsInputs :
       /\ options_input' = Strip(raw)
       /\ mount_options' = Or(Strip(raw), DEFAULT_MOUNT_OPTIONS)
  /\ pc' = "prompt_dump"
  /\ asked' = Append(asked, pc)
  /\ UNCHANGED <<files, listing, exitStatus, interrupted, uuid_entered,
                 drive_uuid, scanFrom, warnedLines, confirm_continue,
                 confirm_continue_mp, create_dir_choice, confirm_non_empty,
                 confirm_add, label, mount_input, mount_point,
                 detected_fstype, fs_input, fs_type, dump_pass_input,
                 dump_pass, dir>>

\* The dump and pass prompt; get_user_input returns.
PromptDumpPass ==
  /\ pc = "prompt_dump"
  /\ \E raw \in DumpPassInputs :
       /\ dump_pass_input' = Strip(raw)
       /\ dump_pass' = Or(Strip(raw), DEFAULT_DUMP_PASS)
  /\ pc' = "return_input"
  /\ asked' = Append(asked, pc)
  /\ UNCHANGED <<files, listing, exitStatus, interrupted, uuid_entered,
                 drive_uuid, scanFrom, warnedLines, confirm_continue,
                 confirm_continue_mp, create_dir_choice, confirm_non_empty,
                 confirm_add, label, mount_input, mount_point,
                 detected_fstype, fs_input, fs_type, options_input,
                 mount_options, dir>>

\* get_user_input returns its five values; its other variables are gone.
ReturnInput ==
  /\ pc = "return_input"
  /\ pc' = "check_dir"
  /\ label' = None
  /\ detected_fstype' = None
  /\ mount_input' = <<>>
  /\ fs_input' = <<>>
  /\ options_input' = <<>>
  /\ dump_pass_input' = <<>>
  /\ confirm_continue' = None
  /\ confirm_continue_mp' = None
  /\ scanFrom' = 1
  /\ UNCHANGED <<files, listing, exitStatus, interrupted, asked,
                 uuid_entered, drive_uuid, warnedLines, create_dir_choice,
                 confirm_non_empty, confirm_add, mount_point, fs_type,
                 mount_options, dump_pass, dir>>

(***************************************************************************)
(* create_mount_point_dir.                                                 *)
(***************************************************************************)
\* os.path.isdir(mount_point), and os.listdir(mount_point) when it is one:
\* there is no such directory, it is empty, it is not empty, or listing it
\* raises (PermissionError or another exception: a warning either way).
CheckDir ==
  /\ pc = "check_dir"
  /\ \E found \in {"absent", "empty", "nonempty", "unreadable"} :
       /\ dir' = found
       /\ pc' = CASE found = "absent" -> "prompt_create"
                  [] found = "nonempty" -> "confirm_nonempty"
                  [] OTHER -> "confirm_add"
  /\ UNCHANGED <<exitStatus, interrupted, asked, files, listing, params, answers, scan>>

\* Mutant: declining the directory ends the run.
AfterDeclinedCreate_Abort == "exited"

\* What create_mount_point_dir does on an answer to "create it?" other than
\* yes: it warns and returns.
AfterDeclinedCreate == "confirm_add"

\* The answer to "create it?": on yes os.makedirs creates the directory or
\* fails, which ends the run; on any other answer nothing is created.
PromptCreate ==
  /\ pc = "prompt_create"
  /\ \E raw \in Answers :
       /\ create_dir_choice' = Some(Lower(raw))
       /\ IF IsYes(Lower(raw))
          THEN \/ /\ dirCreated' = TRUE
                  /\ dir' = "empty"
                  /\ pc' = "confirm_add"
                  /\ exitStatus' = exitStatus
               \/ /\ Exit(1)
                  /\ UNCHANGED <<dirCreated, dir>>
          ELSE /\ pc' = AfterDeclinedCreate
               /\ IF pc' = "exited" THEN exitStatus' = 1 ELSE exitStatus' = exitStatus
               /\ UNCHANGED <<dirCreated, dir>>
  /\ asked' = Append(asked, pc)
  /\ UNCHANGED <<interrupted, fstabExists, fstab, fstab0, backup, backupOk,
                 tableOpened, listing, params, scan, confirm_continue,
                 confirm_continue_mp, confirm_non_empty, confirm_add>>

\* The answer to "the mount point is not empty, continue?".
ConfirmNonEmpty ==
  /\ pc = "confirm_nonempty"
  /\ \E raw \in Answers :
       /\ confirm_non_empty' = Some(Lower(raw))
       /\ IF ~IsYes(Lower(raw)) THEN Exit(1)
          ELSE pc' = "confirm_add" /\ exitStatus' = exitStatus
  /\ asked' = Append(asked, pc)
  /\ UNCHANGED <<interrupted, files, listing, params, scan, dir,
                 confirm_continue, confirm_continue_mp, create_dir_choice,
                 confirm_add>>

(***************************************************************************)
(* add_to_fstab.                                                           *)
(***************************************************************************)
\* fstab_entry
fstab_entry ==
  UuidField(drive_uuid) \o <<" ">> \o mount_point \o <<" ">> \o fs_type
    \o <<" ">> \o mount_options \o <<" ">> \o dump_pass

Digits == <<"0", "1", "2", "3", "4", "5", "6", "7", "8", "9">>

\* datetime.now().strftime('%Y-%m-%d %H:%M:%S'), t seconds after midnight of
\* 2025-01-01, for t < 60.
Timestamp(t) ==
  <<"2", "0", "2", "5", "-", "0", "1", "-", "0", "1", " ", "0", "0", ":", "0",
    "0", ":">> \o <<Digits[(t \div 10) + 1], Digits[(t % 10) + 1]>>

\* Mutant: an empty file gets a newline too.
NeedsNewline_AlsoWhenEmpty(content) == ~EndsWith(content, <<"\n">>)

\* Whether the append starts with a newline: the content read is not empty
\* and does not end with one.
NeedsNewline(content) == content # <<>> /\ ~EndsWith(content, <<"\n">>)

\* The texts the three f.write calls are given, in order, at time t.
WriteCalls(content, t) ==
  <<IF NeedsNewline(content) THEN <<"\n">> ELSE <<>>,
    <<"#", " ", "E", "n", "t", "r", "y", " ", "a", "d", "d", "e", "d", " ", "b",
      "y", " ", "s", "c", "r", "i", "p", "t", " ", "o", "n", " ">>
      \o Timestamp(t) \o <<"\n">>,
    fstab_entry \o <<"\n">>>>

\* What a run writes when every write succeeds.
Written(content, t) ==
  WriteCalls(content, t)[1] \o WriteCalls(content, t)[2] \o WriteCalls(content, t)[3]

\* How much of it may have reached the file when a write fails: the output
\* of the first call (nothing, when that wrote nothing), of the first two, or
\* all but the last character.
FailedWriteLengths(content, t) ==
  {Len(WriteCalls(content, t)[1]),
   Len(WriteCalls(content, t)[1]) + Len(WriteCalls(content, t)[2]),
   Len(Written(content, t)) - 1}

\* Mutant: the entry is written without a backup.
AfterConfirmedAdd_NoBackup == "write"

\* Where add_to_fstab goes on a confirmed final question: to the backup.
AfterConfirmedAdd == "backup"

\* The answer to "add this line?": any answer but yes ends the run normally.
ConfirmAdd ==
  /\ pc = "confirm_add"
  /\ \E raw \in Answers :
       /\ confirm_add' = Some(Lower(raw))
       /\ IF IsYes(Lower(raw))
          THEN pc' = AfterConfirmedAdd /\ exitStatus' = exitStatus
          ELSE Exit(0)
  /\ asked' = Append(asked, pc)
  /\ UNCHANGED <<interrupted, files, listing, params, scan, dir,
                 confirm_continue, confirm_continue_mp, create_dir_choice,
                 confirm_non_empty>>

\* The file shutil.copy2 leaves at the backup path when it succeeds.
CopiedContent(src) == src

\* shutil.copy2(FSTAB_FILE, fstab_backup): it returns, or it raises having
\* left no file or (the metadata not copied) a whole copy, which ends the run.
Backup ==
  /\ pc = "backup"
  /\ \/ /\ backup' = Some(CopiedContent(fstab))
        /\ backupOk' = TRUE
        /\ pc' = "write"
        /\ exitStatus' = exitStatus
     \/ /\ backup' \in {None, Some(fstab)}
        /\ backupOk' = FALSE
        /\ Exit(1)
  /\ UNCHANGED <<interrupted, asked, fstabExists, fstab, fstab0, tableOpened,
                 dirCreated, listing, params, answers, scan, dir>>

\* Mutant: the file is written from its start, over what it held.
WriteAtEnd_FromStart(old, s) == s \o Drop(old, Len(s))

\* The table file after s is written to it at the position the read left.
WriteAtEnd(old, s) == old \o s

\* with open(FSTAB_FILE, "r+"): the open fails; or the content is read and
\* the writes succeed; or a write fails part of the way.
WriteEntry ==
  /\ pc = "write"
  /\ \/ /\ Exit(1)
        /\ UNCHANGED <<fstab, tableOpened>>
     \/ /\ tableOpened' = TRUE
        /\ \E t \in 0..MaxTick :
             fstab' = WriteAtEnd(fstab, Written(UniversalNewlines(fstab), t))
        /\ Exit(0)
     \/ /\ tableOpened' = TRUE
        /\ \E t \in 0..MaxTick :
             \E n \in FailedWriteLengths(UniversalNewlines(fstab), t) :
               fstab' = WriteAtEnd(fstab, Take(Written(UniversalNewlines(fstab), t), n))
        /\ Exit(1)
  /\ UNCHANGED <<interrupted, asked, fstabExists, fstab0, backup, backupOk,
                 dirCreated, listing, params, answers, scan, dir>>

(***************************************************************************)
(* The operator's interrupt and the end of the input, at a prompt.         *)
(***************************************************************************)
Prompts ==
  {"prompt_uuid", "confirm_uuid", "prompt_mount", "confirm_mount", "prompt_fs",
   "prompt_options", "prompt_dump", "prompt_create", "confirm_nonempty",
   "confirm_add"}

\* Mutant: an interrupt ends the run like a normal completion.
InterruptExit_Status0 == Exit(0)

\* main()'s handler of KeyboardInterrupt: a message, and sys.exit(1).
InterruptExit == Exit(1)

\* KeyboardInterrupt out of input(): no handler but main()'s catches it.
Interrupt ==
  /\ pc \in Prompts
  /\ asked' = Append(asked, pc)
  /\ interrupted' = TRUE
  /\ InterruptExit
  /\ UNCHANGED <<files, listing, params, answers, scan, dir>>

\* EOFError out of input(): create_mount_point_dir's handler around the
\* listing swallows it and returns; every other handler ends the run.
EndOfInput ==
  /\ pc \in Prompts
  /\ asked' = Append(asked, pc)
  /\ IF pc = "confirm_nonempty"
     THEN pc' = "confirm_add" /\ exitStatus' = exitStatus
     ELSE Exit(1)
  /\ UNCHANGED <<interrupted, files, listing, params, answers, scan, dir>>

Next ==
  \/ check_root
  \/ list_drives
  \/ PrintGuidance
  \/ PromptUuid
  \/ ScanUuid
  \/ ConfirmUuid
  \/ GetLabel
  \/ PromptMount
  \/ ScanMount
  \/ ConfirmMount
  \/ DetectFs
  \/ PromptFs
  \/ PromptOptions
  \/ PromptDumpPass
  \/ ReturnInput
  \/ CheckDir
  \/ PromptCreate
  \/ ConfirmNonEmpty
  \/ ConfirmAdd
  \/ Backup
  \/ WriteEntry
  \/ Interrupt
  \/ EndOfInput

Spec == Init /\ [][Next]_vars

(***************************************************************************)
(* What the properties below speak of.                                     *)
(***************************************************************************)
IsPrefix(a, b) == Len(a) <= Len(b) /\ SubSeq(b, 1, Len(a)) = a

Last(s) == s[Len(s)]

\* The run ended having opened the table file and written all it meant to.
Succeeded == pc = "exited" /\ exitStatus = 0 /\ tableOpened

\* The entry line of the five collected fields, joined by single spaces.
ExpectedEntry ==
  <<"U", "U", "I", "D", "=">> \o drive_uuid \o <<" ">> \o mount_point \o <<" ">>
    \o fs_type \o <<" ">> \o mount_options \o <<" ">> \o dump_pass

\* One comment line: "#", no line break inside, "\n" at its end.
IsCommentLine(l) ==
  /\ Len(l) >= 2
  /\ l[1] = "#"
  /\ l[Len(l)] = "\n"
  /\ \A i \in 1..(Len(l) - 1) : l[i] \notin {"\n", "\r"}

\* The table file is its first content, then nl, then one comment line, then
\* the entry line, and nothing else.
AppendedAfter(nl) ==
  LET added == Drop(fstab, Len(fstab0))
      entryLine == ExpectedEntry \o <<"\n">>
  IN /\ IsPrefix(fstab0, fstab)
     /\ Len(added) >= Len(nl) + Len(entryLine)
     /\ StartsWith(added, nl)
     /\ EndsWith(added, entryLine)
     /\ IsCommentLine(SubSeq(added, Len(nl) + 1, Len(added) - Len(entryLine)))

\* The numbers of the lines of the table file, as the run found it, whose
\* first whitespace-separated token is UUID=<uuid>.
UuidLineNumbers(uuid) ==
  LET ls == Lines(UniversalNewlines(fstab0))
  IN SelectSeq(Indices(ls), LAMBDA i :
       LET tokens == Split(ls[i])
       IN tokens # <<>> /\ tokens[1] = <<"U", "U", "I", "D", "=">> \o uuid)

\* The operator was asked to create the mount point and did not say yes.
DeclinedCreate ==
  dir = "absent" /\ create_dir_choice # None /\ create_dir_choice[1] # yes

\* The operator answered the final question and did not say yes.
DeclinedAdd == confirm_add # None /\ confirm_add[1] # yes

(***************************************************************************)
(* The properties.                                                         *)
(***************************************************************************)
\* C1: the table file is opened for writing, and written, only after
\* shutil.copy2 returned, and the backup then holds what the table file held
\* before the append; when the copy fails the run ends with a non-zero status
\* and the table file is neither opened for writing nor changed.
C1_BackupBeforeWrite ==
  /\ pc = "write" => backupOk /\ backup = Some(fstab) /\ fstab = fstab0
  /\ (tableOpened \/ fstab # fstab0) => backupOk /\ backup = Some(fstab0)
  /\ (pc = "exited" /\ confirm_add = Some(yes) /\ ~backupOk) =>
       exitStatus # 0 /\ ~tableOpened /\ fstab = fstab0

\* C1 witness: a run that backed the table file up and then wrote to it.
C1_Witness == pc = "exited" /\ tableOpened /\ fstab # fstab0 /\ backupOk

\* C2: in every state of every run, whatever way it ends, the content the
\* table file had when the run started is a prefix of its content.
C2_AppendOnly == IsPrefix(fstab0, fstab)

\* C2 witness: a write failed part of the way into a table file that was
\* not empty.
C2_Witness ==
  pc = "exited" /\ exitStatus = 1 /\ tableOpened /\ fstab # fstab0 /\ fstab0 # <<>>

\* C3 as amended: after a successful run the table file is its first
\* content, then one newline if that content is not empty and does not end
\* with a line terminator ("\n", or "\r", which is read as one), then one
\* comment line, then the one entry line of the five fields joined by single
\* spaces, and nothing else.
C3_SuccessfulAppend ==
  Succeeded =>
    AppendedAfter(IF fstab0 # <<>> /\ Last(fstab0) \notin {"\n", "\r"}
                  THEN <<"\n">> ELSE <<>>)

\* C3 witness: a successful run on a table file whose last line had no
\* terminator.
C3_Witness == Succeeded /\ fstab0 # <<>> /\ Last(fstab0) \notin {"\n", "\r"}

\* C3 as claimed: after a successful run the table file is its first
\* content, then one newline if that content did not end with a newline,
\* then one comment line, then the one entry line.
C3_AsClaimed ==
  Succeeded =>
    AppendedAfter(IF EndsWith(fstab0, <<"\n">>) THEN <<>> ELSE <<"\n">>)

\* C4: when the answer to the final question is anything but yes (in any
\* case of its letters), the table file is what it was before the run, no
\* backup exists, and the run ends with status 0.
C4_DeclineChangesNothing ==
  DeclinedAdd =>
    /\ pc = "exited" /\ exitStatus = 0
    /\ fstab = fstab0
    /\ backup = None /\ ~backupOk /\ ~tableOpened

\* C4 witness: the final question answered " yes", which is no yes.
C4_Witness == pc = "exited" /\ confirm_add = Some(<<" ", "y", "e", "s">>)

\* C5: when the identifier typed at the first prompt is empty once stripped,
\* the run ends at once with a non-zero status: no other prompt was issued,
\* no directory and no backup were created, the table file is unchanged.
C5_EmptyIdentifierExits ==
  (uuid_entered # None /\ Strip(uuid_entered[1]) = <<>>) =>
    /\ pc = "exited" /\ exitStatus # 0
    /\ asked = <<"prompt_uuid">>
    /\ dir = "unknown" /\ ~dirCreated
    /\ backup = None /\ ~backupOk /\ ~tableOpened
    /\ fstab = fstab0

\* C5 witness: the identifier prompt answered with one space.
C5_Witness == pc = "exited" /\ uuid_entered = Some(<<" ">>)

\* C6: when the table file has a line whose first token is UUID=<X> and the
\* operator enters X, the first thing after the identifier prompt is the
\* warning about the first such line and its confirmation; the run gets past
\* it only on yes, any other answer ends it with the table file unchanged,
\* and no run warns or asks about the identifier twice.
C6_DuplicateIdentifierConfirmed ==
  LET entered == uuid_entered # None /\ drive_uuid # <<>>
      found == UuidLineNumbers(drive_uuid)
      confirmations == {i \in 1..Len(asked) : asked[i] = "confirm_uuid"}
  IN entered =>
       /\ found = <<>> => confirmations = {} /\ warnedLines = <<>>
       /\ found # <<>> =>
            /\ pc = "confirm_uuid" =>
                 asked = <<"prompt_uuid">> /\ warnedLines = <<found[1]>>
            /\ pc = "get_label" =>
                 /\ asked = <<"prompt_uuid", "confirm_uuid">>
                 /\ confirm_continue = Some(yes)
                 /\ warnedLines = <<found[1]>>
            /\ Len(asked) >= 2 => asked[2] = "confirm_uuid"
            /\ pc \notin {"scan_uuid", "confirm_uuid", "exited"} =>
                 Len(asked) >= 2 /\ asked[2] = "confirm_uuid"
            /\ (confirm_continue # None /\ confirm_continue[1] # yes) =>
                 /\ pc = "exited" /\ exitStatus # 0
                 /\ asked = <<"prompt_uuid", "confirm_uuid">>
                 /\ fstab = fstab0
            /\ Cardinality(confirmations) <= 1 /\ Len(warnedLines) <= 1

\* C6 witness: a duplicate identifier, confirmed, in a table file that holds
\* it on two lines.
C6_Witness ==
  /\ pc = "get_label"
  /\ confirm_continue = Some(yes)
  /\ Len(UuidLineNumbers(drive_uuid)) >= 2

\* C7: an interrupt at a prompt ends the run with a non-zero status, and at
\* that exit the table file is unchanged and there is no backup.
C7_InterruptChangesNothing ==
  interrupted =>
    /\ pc = "exited" /\ exitStatus # 0
    /\ Last(asked) \in Prompts
    /\ fstab = fstab0
    /\ backup = None /\ ~backupOk /\ ~tableOpened

\* C7 witness: an interrupt at the final question, the last prompt there is.
C7_Witness == interrupted /\ Last(asked) = "confirm_add"

\* C8: when the mount point does not exist and the operator does not say yes
\* to creating it, no directory is created and the run goes on to the table
\* update; and when that is confirmed and succeeds the entry is appended as
\* in any successful run.
C8_DeclinedDirectoryStillAppends ==
  DeclinedCreate =>
    /\ ~dirCreated
    /\ pc \in {"confirm_add", "backup", "write", "exited"}
    /\ pc = "exited" => Last(asked) = "confirm_add"
    /\ Succeeded =>
         AppendedAfter(IF fstab0 # <<>> /\ Last(fstab0) \notin {"\n", "\r"}
                       THEN <<"\n">> ELSE <<>>)

\* C8 witness: a successful run after the directory was declined.
C8_Witness == DeclinedCreate /\ Succeeded /\ fstab # fstab0

\* C9: a blank mount point becomes /mnt/ and the label, lowered, its spaces
\* made underscores, or without a label /mnt/drive- and the first 8
\* characters of the identifier; a blank filesystem type becomes the detected
\* one; blank options become "defaults"; a blank dump and pass becomes "0 0".
\* Identifier ABCD-1234, label "Backup Drive", detected type ntfs and blank
\* answers give the entry "UUID=ABCD-1234 /mnt/backup_drive ntfs defaults 0 0".
C9_Defaults ==
  LET abcd == <<"A", "B", "C", "D", "-", "1", "2", "3", "4">>
      backupDrive == <<"B", "a", "c", "k", "u", "p", " ", "D", "r", "i", "v", "e">>
      ntfs == <<"n", "t", "f", "s">>
  IN pc = "return_input" =>
       /\ (mount_input = <<>> /\ label # None /\ label[1] # <<>>) =>
            mount_point = <<"/", "m", "n", "t", "/">> \o Lower(Replace(label[1], " ", "_"))
       /\ (mount_input = <<>> /\ (label = None \/ label = Some(<<>>))) =>
            mount_point = <<"/", "m", "n", "t", "/", "d", "r", "i", "v", "e", "-">>
                            \o SubSeq(drive_uuid, 1, IF Len(drive_uuid) < 8
                                                     THEN Len(drive_uuid) ELSE 8)
       /\ (mount_input = <<>> /\ label = Some(backupDrive)) =>
            mount_point = <<"/", "m", "n", "t", "/", "b", "a", "c", "k", "u", "p",
                            "_", "d", "r", "i", "v", "e">>
       /\ (mount_input = <<>> /\ label = None /\ drive_uuid = abcd) =>
            mount_point = <<"/", "m", "n", "t", "/", "d", "r", "i", "v", "e", "-",
                            "A", "B", "C", "D", "-", "1", "2", "3">>
       /\ (fs_input = <<>> /\ detected_fstype # None) => fs_type = detected_fstype[1]
       /\ options_input = <<>> => mount_options = <<"d", "e", "f", "a", "u", "l", "t", "s">>
       /\ dump_pass_input = <<>> => dump_pass = <<"0", " ", "0">>
       /\ (/\ drive_uuid = abcd
           /\ label = Some(backupDrive)
           /\ detected_fstype = Some(ntfs)
           /\ mount_input = <<>> /\ fs_input = <<>>
           /\ options_input = <<>> /\ dump_pass_input = <<>>) =>
            fstab_entry =
              <<"U", "U", "I", "D", "=", "A", "B", "C", "D", "-", "1", "2", "3", "4",
                " ", "/", "m", "n", "t", "/", "b", "a", "c", "k", "u", "p", "_", "d",
                "r", "i", "v", "e", " ", "n", "t", "f", "s", " ", "d", "e", "f", "a",
                "u", "l", "t", "s", " ", "0", " ", "0">>

\* C9 witness: the scenario, as get_user_input returns.
C9_Witness ==
  /\ pc = "return_input"
  /\ drive_uuid = <<"A", "B", "C", "D", "-", "1", "2", "3", "4">>
  /\ label = Some(<<"B", "a", "c", "k", "u", "p", " ", "D", "r", "i", "v", "e">>)
  /\ detected_fstype = Some(<<"n", "t", "f", "s">>)
  /\ mount_input = <<>> /\ fs_input = <<>>
  /\ options_input = <<>> /\ dump_pass_input = <<>>

\* C10 as amended: however lsblk ends, list_drives does not end the run and
\* goes on to print its guidance, which every later prompt comes after; it
\* runs the second command before the guidance when lsblk returned a non-zero
\* code, and does not run it when lsblk is not installed.
C10_ListingIsAdvisory ==
  /\ lsblk_result # "unbound" => pc = "print_guidance"
  /\ pc = "print_guidance" => (blkidAttempted <=> lsblk_result = "nonzero")
  /\ (pc = "prompt_uuid" \/ asked # <<>>) => guidancePrinted

\* C10 witness: lsblk is not installed, and the guidance is about to be
\* printed without the second command having run.
C10_Witness ==
  pc = "print_guidance" /\ lsblk_result = "missing" /\ ~blkidAttempted

\* C10 as claimed: however lsblk ends, list_drives does not end the run and
\* prints its guidance, and in both failures of lsblk (a non-zero code, not
\* installed) the second command was run before the guidance.
C10_AsClaimed ==
  /\ lsblk_result # "unbound" => pc = "print_guidance"
  /\ (pc = "print_guidance" /\ lsblk_result \in {"nonzero", "missing"}) => blkidAttempted
  /\ (pc = "prompt_uuid" \/ asked # <<>>) => guidancePrinted

====
